---- MODULE Spec2Model ----
(***************************************************************************)
(* Host side of the keyboard data link (hid_fetcher): the main loop, the   *)
(* refresh cycle, the discovery loop, the transport event handlers and the *)
(* liveness check, as a state machine of the coroutines of the Node.js     *)
(* process.  Every action is one run of a coroutine between two awaits.    *)
(*                                                                         *)
(* Time is counted in units of 10 seconds (the shortest delay in the code),*)
(* so sleep(10) is 1, sleep(1 * 60) is 6, sleep(3 * 60) is 18,             *)
(* sleep(10 * 60) is 60 and the 10 * 60 * 1000 ms watchdog window is 60.   *)
(***************************************************************************)
EXTENDS Integers, Sequences, FiniteSets, TLC

\* ------------------------------------------------------------ constants
\* sleep(10 * 60) of the main loop
CyclePeriod == 60
\* sleep(1 * 60) after a skipped cycle
RecheckDelay == 6
\* sleep(3 * 60) between two discovery attempts
RetryDelay == 18
\* sleep(10) of the error handler
Backoff == 1
\* 10 * 60 * 1000 ms of isKeyboardActive
WatchdogWindow == 60

\* ------------------------------------------------------------ bounds
\* the number of times the clock advances
MaxTicks == 2
\* number of transport handles the process opens
MaxHandles == 2
\* what the clock advances by in one step when no timer is set
Quantum == 30

\* ------------------------------------------------------------ domains
\* const fetchers: Fetcher[] = [MetroData, WeatherData, StockData]
fetchers == << "metro", "weather", "stock" >>

NumFetchers == Len(fetchers)

\* the record a fetcher holds, as far as the number of its packets goes:
\* 0 the record of a fetcher never refreshed (no line, no symbol), 1 the
\* record after a successful refresh (metro: one line with an incident, a
\* short message and one station; stock: both symbols with a short history)
Shapes(name) == {1}

\* the packets serialize() returns, by tag, for a fetcher holding a record
serialize(name, shape) ==
    CASE name = "metro" ->
            IF shape = 0 THEN << >> ELSE << "METRO", "METRO_STATION" >>
      [] name = "weather" -> << "WEATHER" >>
      [] name = "stock" ->
            IF shape = 0 THEN << >> ELSE << "STOCK_1", "STOCK_1" >>

\* refresh() of MetroData and StockData catches its own failure and logs it;
\* refresh() of WeatherData lets it propagate
CatchesOwnFailure(name) == name \in {"metro", "stock"}

\* ------------------------------------------------------------ state
VARIABLES
    now,            \* Date.now()
    ticks,          \* the number of times the clock has advanced
    devicePresent,  \* the device is plugged in and enumerable
    keyboard,       \* let keyboard: the open handle, 0 for null
    handles,        \* handle -> "unopened" | "open" | "closed"
    hooks,          \* handle -> the data and error listeners are attached
    lastHeartbeat,  \* let lastHeartbeat
    data,           \* fetcher index -> the record it holds
    mainPc,         \* where main() is
    mainWake,       \* when the sleep of main() ends
    disc,           \* coroutine -> its waitForKeyboard / error handler state
    cyc,            \* refreshAndSend invocation -> its state
    exited,         \* "no" while the process runs, else how it ended
    enc,            \* the encoders at work: the record serialized last, its packets
    fw,             \* the keyboard: the globals of the keymap and its timer
    usb             \* the link: the packets on their way down, the heartbeats sent up

vars == << now, ticks, devicePresent, keyboard, handles, hooks, lastHeartbeat, data,
           mainPc, mainWake, disc, cyc, exited, enc, fw, usb >>

\* handles are numbered in the order they are opened
Handles == 1 .. MaxHandles

\* coroutine 0 is main(), coroutine h is the error handler of handle h
Coroutines == 0 .. MaxHandles

\* invocation 0 is the one main() awaits, invocation h is the one
\* waitForKeyboard starts, un-awaited, when it opens handle h
Cycles == 0 .. MaxHandles

\* st: "none" (not running) | "refresh" (awaiting fetcher.refresh()) |
\* "writing" (awaiting sendToKeyboard(packet)); f: the fetcher; payload: what
\* serialize() returned; k: the packets of payload behind it; i: the packet
\* handed to sendToKeyboard; wh: the handle that packet was written to, 0 if
\* keyboard was null; h0: the handle keyboard held when the invocation began
NoCycle ==
    [st |-> "none", f |-> 0, k |-> 0, i |-> 0, payload |-> << >>, wh |-> 0,
     h0 |-> 0]

NoCoroutine == [pc |-> "idle", wake |-> 0]

Running == exited = << "no", "" >>

\* ------------------------------------------------------------ liveness check
\* export function isKeyboardActive(): Date.now() - lastHeartbeat > 10 * 60 * 1000
isKeyboardActive(t, hb) == t - hb > WatchdogWindow

\* ------------------------------------------------------------ refresh cycle
\* a faulty loop: the payload taken from its end
NextPacketReversed(payload, k) == Len(payload) - k

\* the index of the packet the loop `for (const packet of payload)` sends
\* after k packets
NextPacket(payload, k) == k + 1

\* the call sendToKeyboard(packet): keyboard?.write(packet) on the handle the
\* global holds at this moment, nothing when it is null
sendToKeyboard(r) ==
    [r EXCEPT !.st = "writing", !.i = NextPacket(r.payload, r.k),
              !.wh = keyboard]

\* the loop of refreshAndSend from the point where k packets of the current
\* domain are behind it, up to its next await
Advance(r) ==
    IF r.k < Len(r.payload) THEN sendToKeyboard(r)
    ELSE IF r.f < NumFetchers
         THEN [r EXCEPT !.st = "refresh", !.f = r.f + 1, !.k = 0, !.i = 0,
                        !.payload = << >>, !.wh = 0]
         ELSE NoCycle

\* export async function refreshAndSend(): up to its first await
refreshAndSend(kb) == [NoCycle EXCEPT !.st = "refresh", !.f = 1, !.h0 = kb]

\* invocation c goes on as s; when the one main() awaits returns, main()
\* loops to its sleep(10 * 60)
Proceed(c, s) ==
    IF c = 0 /\ s.st = "none"
    THEN /\ cyc' = [cyc EXCEPT ![0] = NoCycle]
         /\ mainPc' = "sleep"
         /\ mainWake' = now + CyclePeriod
    ELSE /\ cyc' = [cyc EXCEPT ![c] = s]
         /\ UNCHANGED << mainPc, mainWake >>

\* refreshAndSend rejects: the invocation main() awaits rejects main(), whose
\* catch logs and calls process.exit(1) ("exit"); an un-awaited one is an
\* unhandled rejection, which ends the process ("unhandled") or only warns,
\* as the runtime is set
Reject(c, cause) ==
    /\ UNCHANGED << mainPc, mainWake >>
    /\ IF c = 0
       THEN /\ exited' = << "exit", cause >>
            /\ cyc' = cyc
       ELSE \E crash \in BOOLEAN :
                IF crash
                THEN exited' = << "unhandled", cause >> /\ cyc' = cyc
                ELSE /\ exited' = exited
                     /\ cyc' = [cyc EXCEPT ![c] = NoCycle]

\* await fetcher.refresh() resolves with a new record
RefreshOk(c) ==
    /\ Running
    /\ cyc[c].st = "refresh"
    /\ \E shape \in Shapes(fetchers[cyc[c].f]) :
          /\ data' = [data EXCEPT ![cyc[c].f] = shape]
          /\ Proceed(c, Advance([cyc[c] EXCEPT
                 !.payload = serialize(fetchers[cyc[c].f], shape)]))
    /\ UNCHANGED << now, ticks, devicePresent, keyboard, handles, hooks,
                    lastHeartbeat, disc, exited >>
    /\ UNCHANGED << enc, fw, usb >>

\* the upstream call of fetcher.refresh() fails
RefreshFail(c) ==
    /\ Running
    /\ cyc[c].st = "refresh"
    /\ IF CatchesOwnFailure(fetchers[cyc[c].f])
       THEN /\ Proceed(c, Advance([cyc[c] EXCEPT
                   !.payload = serialize(fetchers[cyc[c].f], data[cyc[c].f])]))
            /\ UNCHANGED exited
       ELSE Reject(c, "fetch")
    /\ UNCHANGED << now, ticks, devicePresent, keyboard, handles, hooks,
                    lastHeartbeat, data, disc >>
    /\ UNCHANGED << enc, fw, usb >>

\* await sendToKeyboard(packet) resolves
WriteOk(c) ==
    /\ Running
    /\ cyc[c].st = "writing"
    /\ IF cyc[c].wh = 0 THEN TRUE
       ELSE handles[cyc[c].wh] = "open" /\ devicePresent
    /\ Proceed(c, Advance([cyc[c] EXCEPT !.k = @ + 1, !.wh = 0]))
    /\ UNCHANGED << now, ticks, devicePresent, keyboard, handles, hooks,
                    lastHeartbeat, data, disc, exited >>
    /\ UNCHANGED << enc, fw, usb >>

\* await sendToKeyboard(packet) rejects: the handle was closed or the device
\* is gone
WriteFail(c) ==
    /\ Running
    /\ cyc[c].st = "writing"
    /\ IF cyc[c].wh = 0 THEN FALSE
       ELSE handles[cyc[c].wh] = "closed" \/ ~devicePresent
    /\ Reject(c, "write")
    /\ UNCHANGED << now, ticks, devicePresent, keyboard, handles, hooks,
                    lastHeartbeat, data, disc >>
    /\ UNCHANGED << enc, fw, usb >>

\* ------------------------------------------------------------ discovery
\* waitForKeyboard returns to its caller
Return(q) ==
    /\ disc' = [disc EXCEPT ![q] = [@ EXCEPT !.pc = "done", !.wake = 0]]
    /\ IF q = 0
       THEN mainPc' = "sleep" /\ mainWake' = now + CyclePeriod
       ELSE UNCHANGED << mainPc, mainWake >>

\* the number of handles opened so far
Opened == Cardinality({h \in Handles : handles[h] # "unopened"})

\* what waitForKeyboard does with a handle it has just opened and hooked
\* a faulty connection: no send is started
NoInitialSend(h) == NoCycle

InitialSend(h) == refreshAndSend(h)

\* getKeyboard() resolves: keyboard = handle; attachHooks(); refreshAndSend()
getKeyboardOk(q) ==
    /\ Running
    /\ disc[q].pc = "opening"
    /\ devicePresent
    /\ Opened < MaxHandles
    /\ LET h == Opened + 1
       IN  /\ keyboard' = h
           /\ handles' = [handles EXCEPT ![h] = "open"]
           /\ hooks' = [hooks EXCEPT ![h] = TRUE]
           /\ cyc' = [cyc EXCEPT ![h] = InitialSend(h)]
    /\ Return(q)
    /\ UNCHANGED << now, ticks, devicePresent, lastHeartbeat, data, exited >>
    /\ UNCHANGED << enc, fw, usb >>

\* getKeyboard() throws 'Keyboard not found': ignored, sleep(3 * 60)
getKeyboardFail(q) ==
    /\ Running
    /\ disc[q].pc = "opening"
    /\ ~devicePresent
    /\ disc' = [disc EXCEPT ![q] = [@ EXCEPT !.pc = "retry",
                                             !.wake = now + RetryDelay]]
    /\ UNCHANGED << now, ticks, devicePresent, keyboard, handles, hooks,
                    lastHeartbeat, data, mainPc, mainWake, cyc, exited >>
    /\ UNCHANGED << enc, fw, usb >>

\* the top of the loop of waitForKeyboard: return when keyboard is set, else
\* call getKeyboard()
waitForKeyboard(q) ==
    IF keyboard # 0
    THEN Return(q)
    ELSE /\ disc' = [disc EXCEPT ![q] = [@ EXCEPT !.pc = "opening", !.wake = 0]]
         /\ UNCHANGED << mainPc, mainWake >>

\* sleep(3 * 60) of waitForKeyboard ends
RetryWake(q) ==
    /\ Running
    /\ disc[q].pc = "retry"
    /\ now >= disc[q].wake
    /\ waitForKeyboard(q)
    /\ UNCHANGED << now, ticks, devicePresent, keyboard, handles, hooks,
                    lastHeartbeat, data, cyc, exited >>
    /\ UNCHANGED << enc, fw, usb >>

\* ------------------------------------------------------------ handlers
\* the input reports the data listener is called with: the heartbeat of the
\* keymap (byte 1 is 1), an empty report, a report with 1 in byte 0 only and
\* a report with another value in byte 1
DataReports ==
    {[k \in 1 .. 32 |-> IF k = 2 THEN 1 ELSE 0],
     [k \in 1 .. 32 |-> 0],
     [k \in 1 .. 32 |-> IF k = 1 THEN 1 ELSE 0],
     [k \in 1 .. 32 |-> IF k = 2 THEN 2 ELSE 0]}

\* a faulty test of the marker: byte 0 instead of byte 1
isHeartbeatByte0(report) == report[1] = 1

\* if (data[1] == 1)
isHeartbeat(report) == report[2] = 1

\* keyboard.on('data', (data) => ...) called with a report
onDataOf(h, report) ==
    /\ Running
    /\ hooks[h]
    /\ devicePresent
    /\ lastHeartbeat' = IF isHeartbeat(report) THEN now ELSE lastHeartbeat
    /\ UNCHANGED << now, ticks, devicePresent, keyboard, handles, hooks, data, mainPc,
                    mainWake, disc, cyc, exited >>
    /\ UNCHANGED << enc, fw, usb >>

\* keyboard.on('data'): a report arrives on handle h
onData(h) == \E report \in DataReports : onDataOf(h, report)

\* a faulty handler: the closed handle stays in the global
KeepHandle(kb) == kb

\* what the error handler leaves in the global keyboard: keyboard = null
Discard(kb) == 0

\* a faulty handler: the handle is left open
closeNothing(hs, kb) == hs

\* keyboard.close()
close(hs, kb) == [hs EXCEPT ![kb] = "closed"]

\* keyboard.on('error'): close the handle, remove its listeners, set keyboard
\* to null, then sleep(10)
onError(h) ==
    /\ Running
    /\ hooks[h]
    /\ IF keyboard # 0
       THEN /\ handles' = close(handles, keyboard)
            /\ hooks' = [hooks EXCEPT ![keyboard] = FALSE]
            /\ keyboard' = Discard(keyboard)
       ELSE UNCHANGED << handles, hooks, keyboard >>
    /\ disc' = [disc EXCEPT ![h] = [pc |-> "backoff", wake |-> now + Backoff]]
    /\ UNCHANGED << now, ticks, devicePresent, lastHeartbeat, data, mainPc, mainWake,
                    cyc, exited >>
    /\ UNCHANGED << enc, fw, usb >>

\* sleep(10) of the error handler ends: await waitForKeyboard()
BackoffWake(h) ==
    /\ Running
    /\ disc[h].pc = "backoff"
    /\ now >= disc[h].wake
    /\ waitForKeyboard(h)
    /\ UNCHANGED << now, ticks, devicePresent, keyboard, handles, hooks,
                    lastHeartbeat, data, cyc, exited >>
    /\ UNCHANGED << enc, fw, usb >>

\* ------------------------------------------------------------ main loop
\* sleep(10 * 60) ends: if (!isKeyboardActive()) skip, else refreshAndSend()
CycleWake ==
    /\ Running
    /\ mainPc = "sleep"
    /\ now >= mainWake
    /\ IF ~isKeyboardActive(now, lastHeartbeat)
       THEN /\ mainPc' = "recheck"
            /\ mainWake' = now + RecheckDelay
            /\ cyc' = cyc
       ELSE /\ mainPc' = "refreshAndSend"
            /\ mainWake' = mainWake
            /\ cyc' = [cyc EXCEPT ![0] = refreshAndSend(keyboard)]
    /\ UNCHANGED << now, ticks, devicePresent, keyboard, handles, hooks,
                    lastHeartbeat, data, disc, exited >>
    /\ UNCHANGED << enc, fw, usb >>

\* sleep(1 * 60) ends: continue, to sleep(10 * 60)
RecheckWake ==
    /\ Running
    /\ mainPc = "recheck"
    /\ now >= mainWake
    /\ mainPc' = "sleep"
    /\ mainWake' = now + CyclePeriod
    /\ UNCHANGED << now, ticks, devicePresent, keyboard, handles, hooks,
                    lastHeartbeat, data, disc, cyc, exited >>
    /\ UNCHANGED << enc, fw, usb >>

\* ------------------------------------------------------------ environment
Timers ==
    (IF mainPc \in {"sleep", "recheck"} THEN {mainWake} ELSE {})
    \cup {disc[q].wake : q \in {p \in Coroutines : disc[p].pc \in {"retry", "backoff"}}}

\* the clock advances to the next timer, or by a quantum when no timer is set
Tick ==
    /\ Running
    /\ \E t \in (IF Timers = {} THEN {now + Quantum} ELSE Timers) :
          /\ t > now
          /\ ticks < MaxTicks
          /\ \A w \in Timers : t <= w
          /\ now' = t
          /\ ticks' = ticks + 1
    /\ UNCHANGED << devicePresent, keyboard, handles, hooks, lastHeartbeat,
                    data, mainPc, mainWake, disc, cyc, exited >>
    /\ UNCHANGED << enc, fw, usb >>

\* the device is plugged in
Plug ==
    /\ Running
    /\ ~devicePresent
    /\ devicePresent' = TRUE
    /\ UNCHANGED << now, ticks, keyboard, handles, hooks, lastHeartbeat, data, mainPc,
                    mainWake, disc, cyc, exited >>
    /\ UNCHANGED << enc, fw, usb >>

\* the device is unplugged
Unplug ==
    /\ Running
    /\ devicePresent
    /\ devicePresent' = FALSE
    /\ UNCHANGED << now, ticks, keyboard, handles, hooks, lastHeartbeat, data, mainPc,
                    mainWake, disc, cyc, exited >>
    /\ UNCHANGED << enc, fw, usb >>

\* ============================================================ packet codec
\* ------------------------------------------------------------ buffers
\* Buffer.alloc(32)
PacketSize == 32

\* a faulty allocation: one byte short
AllocShort(n) == [k \in 1 .. (n - 1) |-> 0]

\* Buffer.alloc(n): n zero bytes (a sequence; byte k of the buffer is buf[k+1])
Alloc(n) == [k \in 1 .. n |-> 0]

\* buf[off] = v; an index outside the buffer is ignored
Put(buf, off, v) ==
    IF off + 1 \in DOMAIN buf THEN [buf EXCEPT ![off + 1] = v] ELSE buf

\* the check of buf.writeUInt8(v, off): a value outside 0 .. 255 throws a
\* RangeError (ERR_OUT_OF_RANGE) and nothing is written
OutOfRange(v) == v < 0 \/ v > 255

\* buf.writeUInt8(v, off), for 0 <= v <= 255
writeUInt8(buf, v, off) == Put(buf, off, v)

\* a faulty write: the low byte first
writeUInt16LE(buf, v, off) == Put(Put(buf, off, v % 256), off + 1, v \div 256)

\* buf.writeUInt16BE(v, off), for 0 <= v < 2^16
writeUInt16BE(buf, v, off) == Put(Put(buf, off, v \div 256), off + 1, v % 256)

\* buf.writeInt16BE(v, off), for -2^15 <= v < 2^15: two's complement
writeInt16BE(buf, v, off) == writeUInt16BE(buf, v % 65536, off)

\* a string is a sequence of characters, a character the sequence of the
\* bytes of its UTF-8 encoding; str.length counts characters
RECURSIVE Utf8(_)
Utf8(str) ==
    IF str = << >> THEN << >>
    ELSE IF Len(str) = 1 THEN str[1]
    ELSE LET mid == Len(str) \div 2
         IN  Utf8(SubSeq(str, 1, mid)) \o Utf8(SubSeq(str, mid + 1, Len(str)))

\* str.slice(from, to)
Slice(str, from, to) ==
    SubSeq(str, from + 1, IF to < Len(str) THEN to ELSE Len(str))

\* buf.write(str, off, len, 'utf-8'): whole characters only, as many as fit in
\* len bytes and in the buffer; a character that does not fit ends the write
RECURSIVE write(_, _, _, _)
write(buf, str, off, len) ==
    IF str = << >> THEN buf
    ELSE LET c == Head(str)
         IN  IF Len(c) > len \/ off + Len(c) > Len(buf) THEN buf
             ELSE write([k \in DOMAIN buf |->
                            IF k > off /\ k <= off + Len(c) THEN c[k - off]
                            ELSE buf[k]],
                        Tail(str), off + Len(c), len - Len(c))

\* ------------------------------------------------------------ tags
\* export const DATA_TYPE
DATA_TYPE ==
    [STOCK_1 |-> 1, STOCK_2 |-> 2, METRO |-> 3, METRO_MESSAGE |-> 4,
     METRO_STATION |-> 5, WEATHER |-> 6]

\* buf.writeUInt8(DATA_TYPE.<name>, 1): a name DATA_TYPE does not have reads
\* as undefined, which writeUInt8 converts to NaN and stores as 0
writeTag(buf, name) ==
    writeUInt8(buf, IF name \in DOMAIN DATA_TYPE THEN DATA_TYPE[name] ELSE 0, 1)

\* ------------------------------------------------------------ stock encoder
\* const STOCKS = ['DDOG', 'AAPL']
STOCKS == << "DDOG", "AAPL" >>

\* STOCKS.indexOf(symbol)
indexOf(symbol) == (CHOOSE k \in DOMAIN STOCKS : STOCKS[k] = symbol) - 1

\* the samples of the head packet: hourlyHistory.slice(0, 35)
HeadCap == 35

\* the end of the samples of the continuation: hourlyHistory.slice(35, 80)
HistoryCap == 80

\* the top of the quantized scale: (price - min) / range * 31
Scale == 31

\* the width of a packed sample: for (let i = 0; i < 5; i++, bitPos++)
SampleBits == 5

\* Math.min(...history); of an empty history it is Infinity, which no sample
\* is measured against (0 here)
MinOf(h) ==
    IF h = << >> THEN 0
    ELSE h[CHOOSE k \in DOMAIN h : \A l \in DOMAIN h : h[k] <= h[l]]

\* Math.max(...history)
MaxOf(h) ==
    IF h = << >> THEN 0
    ELSE h[CHOOSE k \in DOMAIN h : \A l \in DOMAIN h : h[k] >= h[l]]

\* const range = max - min || 1
RangeOf(h) == IF MaxOf(h) - MinOf(h) = 0 THEN 1 ELSE MaxOf(h) - MinOf(h)

\* a faulty scale: 32 steps, the maximum out of the field
NormalizeBy32(price, min, range) == ((price - min) * 32) \div range

\* Math.floor((price - min) / range * 31), in exact arithmetic
Normalize(price, min, range) == ((price - min) * Scale) \div range

\* bit i of x
Bit(x, i) == (x \div (2 ^ i)) % 2

\* what the loops over the samples and over the 5 bits of each (low bit
\* first: if (normalized & 1) ...; normalized >>= 1) set at bit position
\* bitPos of the sample region
PackedBit(slice, min, range, bitPos) ==
    LET j == (bitPos \div SampleBits) + 1
    IN  IF j > Len(slice) THEN 0
        ELSE Bit(Normalize(slice[j], min, range), bitPos % SampleBits)

\* the bits set in byte byteIndex = bitPos >> 3 of the region, bit
\* bitPos & 7 each
PackedByte(slice, min, range, byteIndex) ==
    LET b(k) == PackedBit(slice, min, range, byteIndex * 8 + k) * (2 ^ k)
    IN  b(0) + b(1) + b(2) + b(3) + b(4) + b(5) + b(6) + b(7)

\* x | y on bytes
OrByte(x, y) ==
    LET b(k) == (IF Bit(x, k) = 1 \/ Bit(y, k) = 1 THEN 1 ELSE 0) * (2 ^ k)
    IN  b(0) + b(1) + b(2) + b(3) + b(4) + b(5) + b(6) + b(7)

\* the loop for (const price of slice) with payload[byteIndex + base] |=
\* 1 << bitIndex: the buffer after it
PackHistory(buf, base, slice, min, range) ==
    [k \in DOMAIN buf |->
        IF k - 1 >= base
        THEN OrByte(buf[k], PackedByte(slice, min, range, k - 1 - base))
        ELSE buf[k]]

\* Math.round(x * 100) of a number given in thousandths (round half up)
Round100(thousandths) == (thousandths + 5) \div 10

\* the head packet of one symbol (tag STOCK_1)
StockHead(stock) ==
    LET price == Round100(stock.currentPrice)
        b1 == writeTag(Alloc(PacketSize), "STOCK_1")
        b2 == writeUInt8(b1, indexOf(stock.symbol), 2)
        b3 == writeUInt8(b2, IF stock.open THEN 1 ELSE 0, 3)
        b4 == writeUInt16BE(b3, price \div 256, 4)
        b5 == writeUInt8(b4, price % 256, 6)
        b6 == writeInt16BE(b5, Round100(stock.dayChangePercent), 7)
        b7 == writeUInt8(b6, Len(stock.hourlyHistory), 9)
    IN  PackHistory(b7, 10, Slice(stock.hourlyHistory, 0, HeadCap),
                    MinOf(stock.hourlyHistory), RangeOf(stock.hourlyHistory))

\* a faulty continuation: quantized with the bounds of its own samples
StockRestOwnRange(stock) ==
    LET b1 == writeTag(Alloc(PacketSize), "STOCK_2")
        b2 == writeUInt8(b1, indexOf(stock.symbol), 2)
        slice == Slice(stock.hourlyHistory, HeadCap, HistoryCap)
    IN  PackHistory(b2, 3, slice, MinOf(slice), RangeOf(slice))

\* the continuation packet of one symbol (tag STOCK_2)
StockRest(stock) ==
    LET b1 == writeTag(Alloc(PacketSize), "STOCK_2")
        b2 == writeUInt8(b1, indexOf(stock.symbol), 2)
    IN  PackHistory(b2, 3, Slice(stock.hourlyHistory, HeadCap, HistoryCap),
                    MinOf(stock.hourlyHistory), RangeOf(stock.hourlyHistory))

\* the writes of the head packet whose value is out of the range of its
\* field raise a RangeError: price >> 8 on 16 bits, the day change on 16
\* signed bits, the length of the history on 8 bits
StockThrows(stock) ==
    \/ OutOfRange(indexOf(stock.symbol))
    \/ Round100(stock.currentPrice) \div 256 < 0
    \/ Round100(stock.currentPrice) \div 256 > 65535
    \/ Round100(stock.dayChangePercent) < -32768
    \/ Round100(stock.dayChangePercent) > 32767
    \/ OutOfRange(Len(stock.hourlyHistory))

RECURSIVE StockSerialize(_)
\* StockData.serialize(): for each symbol its head packet, then its
\* continuation if (hourlyHistory.length > 35)
StockSerialize(stocks) ==
    IF stocks = << >> THEN << >>
    ELSE LET stock == Head(stocks)
         IN  << StockHead(stock) >>
             \o (IF Len(stock.hourlyHistory) > HeadCap
                 THEN << StockRest(stock) >> ELSE << >>)
             \o StockSerialize(Tail(stocks))

\* ------------------------------------------------------------ metro encoder
\* the message bytes of the head packet: payload.write(message, 3, 29)
HeadBudget == 29

\* the message bytes of a continuation: message.write(slice, 4, 28)
ContBudget == 28

\* the head packet of a line with an incident
MetroHead(incidents) ==
    write(write(writeTag(Alloc(PacketSize), "METRO"), incidents.line, 2, 1),
          incidents.message, 3, HeadBudget)

\* one continuation packet: the tag, the line, the offset, then
\* message.slice(offset, offset + 28)
MetroMessage(incidents, offset) ==
    write(writeUInt8(write(writeTag(Alloc(PacketSize), "METRO_MESSAGE"),
                           incidents.line, 2, 1),
                     offset, 3),
          Slice(incidents.message, offset, offset + ContBudget), 4, ContBudget)

\* the offsets the continuation loop visits: 29, 57, 85, ... below
\* message.length
Offsets(incidents) ==
    {HeadBudget + j * ContBudget : j \in 0 .. Len(incidents.message)}
        \cap 0 .. (Len(incidents.message) - 1)

\* serialize() throws: message.writeUint8(offset, 3) refuses an offset
\* above 255, and nothing in serialize() catches it
MetroThrows(lines) ==
    \E k \in DOMAIN lines :
        /\ lines[k].incident
        /\ \E offset \in Offsets(lines[k]) : OutOfRange(offset)

\* a faulty loop: a stride of 29 characters
RECURSIVE MetroMessagesStride29(_, _)
MetroMessagesStride29(incidents, offset) ==
    IF offset < Len(incidents.message)
    THEN << MetroMessage(incidents, offset) >>
         \o MetroMessagesStride29(incidents, offset + HeadBudget)
    ELSE << >>

RECURSIVE MetroMessages(_, _)
\* for (let offset = 29; offset < message.length; offset += 28), from offset
MetroMessages(incidents, offset) ==
    IF offset < Len(incidents.message)
    THEN << MetroMessage(incidents, offset) >>
         \o MetroMessages(incidents, offset + ContBudget)
    ELSE << >>

\* one station packet: the tag, the line, the index, the count, the name
\* written from byte 5 to the end of the buffer
MetroStation(incidents, i) ==
    write(writeUInt8(writeUInt8(write(writeTag(Alloc(PacketSize), "METRO_STATION"),
                                      incidents.line, 2, 1),
                                i, 3),
                     Len(incidents.stations), 4),
          incidents.stations[i + 1], 5, PacketSize)

RECURSIVE MetroStations(_, _)
\* for (let i = 0; i < stations.length; i++), from i
MetroStations(incidents, i) ==
    IF i < Len(incidents.stations)
    THEN << MetroStation(incidents, i) >> \o MetroStations(incidents, i + 1)
    ELSE << >>

RECURSIVE MetroSerializeHeadLast(_)
\* a faulty encoder: the head after the continuations
MetroSerializeHeadLast(lines) ==
    IF lines = << >> THEN << >>
    ELSE LET l == Head(lines)
         IN  (IF l.incident
              THEN MetroMessages(l, HeadBudget) \o << MetroHead(l) >>
                   \o MetroStations(l, 0)
              ELSE << >>)
             \o MetroSerializeHeadLast(Tail(lines))

RECURSIVE MetroSerialize(_)
\* MetroData.serialize() (the encoder with offsets and stations): for every
\* line with an incident its head, its continuations, its stations
MetroSerialize(lines) ==
    IF lines = << >> THEN << >>
    ELSE LET l == Head(lines)
         IN  (IF l.incident
              THEN << MetroHead(l) >> \o MetroMessages(l, HeadBudget)
                   \o MetroStations(l, 0)
              ELSE << >>)
             \o MetroSerialize(Tail(lines))

\* a continuation of the encoder of hid_fetcher/src/metro.ts: the tag, the
\* line, then message.slice(from) cut at 29 bytes
MetroMessageN(incidents, name, from) ==
    write(write(writeTag(Alloc(PacketSize), name), incidents.line, 2, 1),
          Slice(incidents.message, from, Len(incidents.message)), 3, HeadBudget)

RECURSIVE MetroSerialize2(_)
\* MetroData.serialize() of hid_fetcher/src/metro.ts: the head, one
\* continuation if (message.length > 29), another if (message.length > 29 * 2)
MetroSerialize2(lines) ==
    IF lines = << >> THEN << >>
    ELSE LET l == Head(lines)
         IN  (IF l.incident
              THEN << MetroHead(l) >>
                   \o (IF Len(l.message) > HeadBudget
                       THEN << MetroMessageN(l, "METRO_MESSAGE_1", HeadBudget) >>
                       ELSE << >>)
                   \o (IF Len(l.message) > HeadBudget * 2
                       THEN << MetroMessageN(l, "METRO_MESSAGE_2", HeadBudget * 2) >>
                       ELSE << >>)
              ELSE << >>)
             \o MetroSerialize2(Tail(lines))

\* ------------------------------------------------------------ weather encoder
\* WeatherData.serialize(): one packet
WeatherSerialize(w) ==
    LET b1 == writeUInt8(Alloc(PacketSize), 0, 0)
        b2 == writeTag(b1, "WEATHER")
        b3 == writeUInt8(b2, w.condition, 2)
        b4 == writeInt16BE(b3, w.temperature, 3)
        b5 == writeInt16BE(b4, w.feelsLike, 5)
        b6 == writeUInt8(b5, w.humidity, 7)
        b7 == writeUInt16BE(b6, w.pressure, 8)
        b8 == writeUInt8(b7, w.windSpeed, 10)
        b9 == write(b8, w.sunrise, 11, 5)
    IN  << write(b9, w.sunset, 16, 5) >>

\* ------------------------------------------------------------ receiver
\* enum data_type of the keymap
data_type ==
    [INVALID |-> 0, STOCK_DATA_TYPE |-> 1, METRO_DATA_TYPE |-> 2,
     METRO_MESSAGE_1_DATA_TYPE |-> 3, METRO_MESSAGE_2_DATA_TYPE |-> 4,
     WEATHER_DATA_TYPE |-> 5]

\* raw_hid_receive(data, length): the case of switch (data[0]) a packet
\* takes; the report id is stripped, data[0] is byte 1 of the packet; a
\* value with no case falls through the switch
raw_hid_receive(packet) ==
    LET type == packet[2]
    IN  IF \E c \in DOMAIN data_type : data_type[c] = type
        THEN CHOOSE c \in DOMAIN data_type : data_type[c] = type
        ELSE "none"

\* the size of history[] in single_stock_data, the cap of the decoding loop:
\* i < history_length && i < 24
HistorySlots == 24

RECURSIVE decode_sample(_, _, _, _)
\* the loop over the 5 bits of one value: if (data[bit_pos >> 3] & (1 <<
\* (bit_pos & 7))) value |= 1 << b
decode_sample(region, b, bit_pos, value) ==
    IF b = SampleBits THEN value
    ELSE decode_sample(region, b + 1, bit_pos + 1,
                       IF (region[(bit_pos \div 8) + 1] \div (2 ^ (bit_pos % 8))) % 2 = 1
                       THEN value + 2 ^ b ELSE value)

\* decode_stock_history(data, history_length, history_out): the values it
\* writes to history_out, data being the region of the packed samples
decode_stock_history(region, history_length) ==
    [i \in 1 .. (IF history_length < HistorySlots THEN history_length
                 ELSE HistorySlots) |->
        decode_sample(region, 0, (i - 1) * SampleBits, 0)]

\* ------------------------------------------------------------ records
\* a string of one-byte characters, from their codes
Ascii(codes) == [k \in DOMAIN codes |-> << codes[k] >>]

\* ------------------------------------------------------------ station names
\* .normalize("NFD").replace(/\p{Diacritic}/gu, "") on one character: a
\* letter with an accent loses it (e-acute, e-grave, c-cedilla), any other
\* character stays (U+0153 has no decomposition)
StripDiacritic(c) ==
    CASE c = << 195, 169 >> -> << 101 >>
      [] c = << 195, 168 >> -> << 101 >>
      [] c = << 195, 167 >> -> << 99 >>
      [] OTHER -> c

\* .toUpperCase() on one character: a .. z, and U+0153 to U+0152
UpperCase(c) ==
    CASE Len(c) = 1 /\ c[1] \in 97 .. 122 -> << c[1] - 32 >>
      [] c = << 197, 147 >> -> << 197, 146 >>
      [] OTHER -> c

\* the alternatives of /^(Porte de |Mairie de |Place |Gare de )/i
Prefixes ==
    << Ascii(<< 80, 111, 114, 116, 101, 32, 100, 101, 32 >>),
       Ascii(<< 77, 97, 105, 114, 105, 101, 32, 100, 101, 32 >>),
       Ascii(<< 80, 108, 97, 99, 101, 32 >>),
       Ascii(<< 71, 97, 114, 101, 32, 100, 101, 32 >>) >>

\* name starts with prefix, whatever the case of its letters
StartsWith(name, prefix) ==
    /\ Len(name) >= Len(prefix)
    /\ \A k \in DOMAIN prefix : UpperCase(name[k]) = UpperCase(prefix[k])

\* .replace(/^(...)/i, ''): the first alternative that matches is removed
RemovePrefix(name) ==
    IF \E k \in DOMAIN Prefixes : StartsWith(name, Prefixes[k])
    THEN LET k == CHOOSE k \in DOMAIN Prefixes :
                     /\ StartsWith(name, Prefixes[k])
                     /\ \A j \in 1 .. (k - 1) : ~StartsWith(name, Prefixes[j])
         IN  SubSeq(name, Len(Prefixes[k]) + 1, Len(name))
    ELSE name

\* the width of the display a station name is cut to: normalized.slice(0, 16)
StationWidth == 16

\* abbreviateStation(name)
abbreviateStation(name) ==
    LET stripped == [k \in DOMAIN name |-> StripDiacritic(name[k])]
        trimmed == RemovePrefix(stripped)
        normalized == [k \in DOMAIN trimmed |-> UpperCase(trimmed[k])]
    IN  Slice(normalized, 0, StationWidth)

\* the stations serialized at most: Array.from(stations).slice(0, 5)
StationCap == 5

RECURSIVE addStations(_, _)
\* stations.add(abbreviateStation(name)) for each name in turn: a Set keeps
\* the first occurrence of a value, in insertion order
addStations(names, stations) ==
    IF names = << >> THEN stations
    ELSE LET a == abbreviateStation(Head(names))
         IN  addStations(Tail(names),
                         IF \E k \in DOMAIN stations : stations[k] = a
                         THEN stations ELSE Append(stations, a))

\* a faulty selection: every station is kept
findStationsUncapped(names) == addStations(names, << >>)

\* findStations(data), names being the names data carries in the order of
\* the loops: stop points, then the ends of impacted sections
findStations(names) == Slice(addStations(names, << >>), 0, StationCap)

\* the names the disruptions of a line carry
StationNames ==
    {<< >>,
     \* Nation
     << Ascii(<< 78, 97, 116, 105, 111, 110 >>) >>,
     \* Mairie de Montreuil, Bibliotheque Francois Mitterrand (with accents)
     << Ascii(<< 77, 97, 105, 114, 105, 101, 32, 100, 101, 32, 77, 111, 110, 116,
                 114, 101, 117, 105, 108 >>),
        << << 66 >>, << 105 >>, << 98 >>, << 108 >>, << 105 >>, << 111 >>, << 116 >>,
           << 104 >>, << 195, 168 >>, << 113 >>, << 117 >>, << 101 >>, << 32 >>,
           << 70 >>, << 114 >>, << 97 >>, << 110 >>, << 195, 167 >>, << 111 >>,
           << 105 >>, << 115 >>, << 32 >>, << 77 >>, << 105 >>, << 116 >>, << 116 >>,
           << 101 >>, << 114 >>, << 114 >>, << 97 >>, << 110 >>, << 100 >> >> >>,
     \* Nation, nation, Chaussee d'Antin - La Fayette, Pere Lachaise,
     \* Place d'Italie, Gare de Lyon, Republique, Porte de Saint-Cloud
     << Ascii(<< 78, 97, 116, 105, 111, 110 >>),
        Ascii(<< 110, 97, 116, 105, 111, 110 >>),
        << << 67 >>, << 104 >>, << 97 >>, << 117 >>, << 115 >>, << 115 >>, << 195, 169 >>,
           << 101 >>, << 32 >>, << 100 >>, << 39 >>, << 65 >>, << 110 >>, << 116 >>,
           << 105 >>, << 110 >>, << 32 >>, << 45 >>, << 32 >>, << 76 >>, << 97 >>,
           << 32 >>, << 70 >>, << 97 >>, << 121 >>, << 101 >>, << 116 >>, << 116 >>,
           << 101 >> >>,
        << << 80 >>, << 195, 168 >>, << 114 >>, << 101 >>, << 32 >>, << 76 >>, << 97 >>,
           << 99 >>, << 104 >>, << 97 >>, << 105 >>, << 115 >>, << 101 >> >>,
        Ascii(<< 80, 108, 97, 99, 101, 32, 100, 39, 73, 116, 97, 108, 105, 101 >>),
        Ascii(<< 71, 97, 114, 101, 32, 100, 101, 32, 76, 121, 111, 110 >>),
        << << 82 >>, << 195, 169 >>, << 112 >>, << 117 >>, << 98 >>, << 108 >>,
           << 105 >>, << 113 >>, << 117 >>, << 101 >> >>,
        Ascii(<< 80, 111, 114, 116, 101, 32, 100, 101, 32, 83, 97, 105, 110, 116, 45,
                 67, 108, 111, 117, 100 >>) >>}

\* the lengths of the histories serialized
HistoryLengths == {0, 1, 2, 3, 24, 25, 35, 36, 79, 80, 81}

\* the shapes of the histories serialized: sample i of each
HistoryShapes == {"flat", "ramp", "saw"}

Sample(shape, i) ==
    CASE shape = "flat" -> 120
      [] shape = "ramp" -> 120 + 10 * (i - 1)
      [] shape = "saw" -> 100 + ((i * 7) % 13)

\* the records StockData.refresh() leaves for one symbol; currentPrice and
\* dayChangePercent in thousandths
StockRecords ==
    [symbol : {"DDOG", "AAPL"},
     open : BOOLEAN,
     currentPrice : {0, 123456, 167772154},
     dayChangePercent : {-327675, -1235, 0, 327674},
     hourlyHistory : {[i \in 1 .. n |-> Sample(shape, i)] :
                         n \in HistoryLengths, shape \in HistoryShapes}]

\* the lengths of the messages serialized, in characters
MessageLengths == {0, 1, 28, 29, 30, 57, 58, 70, 85, 87, 88, 200, 300}

\* where a message has its one two-byte character (0: nowhere)
WidePositions == {0, 5, 29, 40}

\* character i of a message: a letter, or a two-byte character at position w
Char(i, w) == IF i = w THEN << 197, 147 >> ELSE << 97 + (i % 23) >>

Message(len, w) == [i \in 1 .. len |-> Char(i, w)]

\* the record of a line without an incident
Quiet(line) == [line |-> Ascii(<< line >>), incident |-> FALSE]

\* the records MetroData.refresh() leaves for the lines, in the order of
\* Object.values (6, 8, 9): line 9 with an incident, alone, after a line
\* without one, or after a line without one and a line with another incident
MetroRecords ==
    {before \o << [line |-> Ascii(<< 57 >>), incident |-> TRUE,
                   message |-> Message(len, w),
                   stations |-> findStations(names)] >> :
        before \in {<< >>, << Quiet(54) >>,
                    << Quiet(54),
                       [line |-> Ascii(<< 56 >>), incident |-> TRUE,
                        message |-> Message(30, 0),
                        stations |-> findStations(
                            << Ascii(<< 78, 97, 116, 105, 111, 110 >>) >>)] >>},
        len \in MessageLengths, w \in WidePositions, names \in StationNames}

\* the records WeatherData holds
WeatherRecords ==
    [condition : 0 .. 5,
     temperature : {-12, 0, 21},
     feelsLike : {-15, 19},
     humidity : {0, 72},
     pressure : {0, 1013},
     windSpeed : {4},
     sunrise : {Ascii(<< 48, 48, 58, 48, 48 >>), Ascii(<< 48, 55, 58, 51, 48 >>)},
     sunset : {Ascii(<< 49, 56, 58, 52, 53 >>)}]

\* ------------------------------------------------------------ stock refresh
\* Times are minutes of the day of the request, UTC (the request of
\* fetchBars names no start, and the bars of the answer are those of the
\* current day, one per 5 minutes with trades: timeframe "5Min").
\* const FIVE_MIN_MS = 5 * 60 * 1000, in minutes
FIVE_MIN == 5

\* t.getUTCHours()
getUTCHours(t) == (t \div 60) % 24

\* t.getUTCMinutes()
getUTCMinutes(t) == t % 60

\* a faulty filter: the hour of 21:00 kept
InOpenHoursThrough21(b) ==
    LET h == getUTCHours(b.t)
        m == getUTCMinutes(b.t)
    IN  (h > 14 \/ (h = 14 /\ m >= 30)) /\ h <= 21

\* the filter of refresh: (h > 14 || (h === 14 && m >= 30)) && h < 21
InOpenHours(b) ==
    LET h == getUTCHours(b.t)
        m == getUTCMinutes(b.t)
    IN  (h > 14 \/ (h = 14 /\ m >= 30)) /\ h < 21

\* what one turn of the gap-filling loop pushes for the bars prev and curr:
\* the interpolated points of the missing intervals, then curr; the prices
\* are kept to the thousandth
FillGap(prev, curr) ==
    LET gapMs == curr.t - prev.t
        intervals == (2 * gapMs + FIVE_MIN) \div (2 * FIVE_MIN)
    IN  [step \in 1 .. (intervals - 1) |->
            [t |-> prev.t + step * FIVE_MIN,
             vw |-> prev.vw + (step * (curr.vw - prev.vw)) \div intervals]]
        \o << curr >>

RECURSIVE Interpolate(_, _)
\* the array interpolated after the turns i .. bars.length - 1 of the loop
Interpolate(bars, i) ==
    IF i > Len(bars) THEN << >>
    ELSE FillGap(bars[i - 1], bars[i]) \o Interpolate(bars, i + 1)

\* ((currentPrice - prevClose) / prevClose) * 100 if prevClose > 0, else 0;
\* in thousandths of a percent
dayChange(currentPrice, prevClose) ==
    IF prevClose > 0
    THEN LET diff == (currentPrice - prevClose) * 1000
         IN  (diff \div prevClose) * 100 + ((diff % prevClose) * 100) \div prevClose
    ELSE 0

\* the record of a symbol with no bar (left): the latest trade, no history
ClosedRecord(symbol, snapshot) ==
    [symbol |-> symbol, open |-> FALSE,
     currentPrice |-> snapshot.latestTrade,
     dayChangePercent |-> dayChange(snapshot.latestTrade, snapshot.prevDailyBar),
     hourlyHistory |-> << >>, bars |-> << >>]

\* one turn of the loop of StockData.refresh(): the record this.stocks[symbol]
\* is set to, with the array stock.bars it was made from
refreshStock(symbol, answer, snapshot) ==
    IF answer = << >> THEN ClosedRecord(symbol, snapshot)
    ELSE LET bars == SelectSeq(answer, InOpenHours)
         IN  IF bars = << >> THEN ClosedRecord(symbol, snapshot)
             ELSE LET interpolated == << bars[1] >> \o Interpolate(bars, 2)
                      currentPrice == interpolated[Len(interpolated)].vw
                  IN  [symbol |-> symbol, open |-> TRUE,
                       currentPrice |-> currentPrice,
                       dayChangePercent |->
                           dayChange(currentPrice, snapshot.prevDailyBar),
                       hourlyHistory |->
                           [k \in DOMAIN interpolated |-> interpolated[k].vw],
                       bars |-> interpolated]

\* the volume-weighted price of the bar of minute t, in thousandths
BarPrice(t) == 100000 + ((t * 7) % 130) * 100

\* the bars of minutes first, first + stride, ... up to last
BarsFrom(first, last, stride) ==
    [k \in 1 .. (IF last < first THEN 0 ELSE (last - first) \div stride + 1) |->
        [t |-> first + (k - 1) * stride, vw |-> BarPrice(first + (k - 1) * stride)]]

\* the answers of the bars request: none, or the bars of a part of the day,
\* before the opening, over it, over the close, with and without gaps
BarAnswers ==
    {BarsFrom(first, last, stride) :
        first \in {780, 865, 870, 960},
        last \in {860, 870, 900, 1255, 1260, 1320},
        stride \in {5, 10, 15, 65}}

\* the answers of the snapshot request: the latest trade and the previous
\* close, in thousandths
Snapshots ==
    {[latestTrade |-> 187500, prevDailyBar |-> 185000],
     [latestTrade |-> 187500, prevDailyBar |-> 40000],
     [latestTrade |-> 187500, prevDailyBar |-> 0],
     [latestTrade |-> 167772160, prevDailyBar |-> 0]}

\* ------------------------------------------------------------ encoders at work
NoEncoding == [kind |-> "none", rec |-> << >>, out |-> << >>, dec |-> << >>]

HostIdle ==
    UNCHANGED << now, ticks, devicePresent, keyboard, handles, hooks, lastHeartbeat,
                 data, mainPc, mainWake, disc, cyc, exited >>

KeyboardIdle == UNCHANGED << fw, usb >>

\* StockData.serialize() on the records of one or both symbols
SerializeStock ==
    /\ enc.kind = "none"
    /\ \E stock \in StockRecords, both \in BOOLEAN :
          LET stocks == IF both
                        THEN << stock, [stock EXCEPT !.symbol =
                                   IF @ = "DDOG" THEN "AAPL" ELSE "DDOG"] >>
                        ELSE << stock >>
          IN  enc' = [kind |-> "stock", rec |-> stocks,
                      out |-> StockSerialize(stocks), dec |-> << >>]
    /\ HostIdle
    /\ KeyboardIdle

\* MetroData.serialize(), the encoder with offsets and stations: the packets,
\* or no packet at all when it throws
SerializeMetro ==
    /\ enc.kind = "none"
    /\ \E lines \in MetroRecords :
          enc' = IF MetroThrows(lines)
                 THEN [kind |-> "metro threw", rec |-> lines, out |-> << >>,
                       dec |-> << >>]
                 ELSE [kind |-> "metro", rec |-> lines,
                       out |-> MetroSerialize(lines), dec |-> << >>]
    /\ HostIdle
    /\ KeyboardIdle

\* MetroData.serialize() of hid_fetcher/src/metro.ts
SerializeMetro2 ==
    /\ enc.kind = "none"
    /\ \E lines \in MetroRecords :
          enc' = [kind |-> "metro2", rec |-> lines, out |-> MetroSerialize2(lines),
                  dec |-> << >>]
    /\ HostIdle
    /\ KeyboardIdle

\* WeatherData.serialize()
SerializeWeather ==
    /\ enc.kind = "none"
    /\ \E w \in WeatherRecords :
          enc' = [kind |-> "weather", rec |-> w, out |-> WeatherSerialize(w),
                  dec |-> << >>]
    /\ HostIdle
    /\ KeyboardIdle

\* StockData.refresh() for one symbol, on an answer of each request
RefreshStock ==
    /\ enc.kind = "none"
    /\ \E symbol \in {"DDOG", "AAPL"}, answer \in BarAnswers,
          snapshot \in Snapshots :
          enc' = [kind |-> "stock refreshed",
                  rec |-> << refreshStock(symbol, answer, snapshot) >>,
                  out |-> << >>, dec |-> answer]
    /\ HostIdle
    /\ KeyboardIdle

\* StockData.serialize() on the record refresh() left: the packets, or no
\* packet at all when it throws
SerializeRefreshed ==
    /\ enc.kind = "stock refreshed"
    /\ enc' = IF StockThrows(enc.rec[1])
              THEN [enc EXCEPT !.kind = "stock threw"]
              ELSE [enc EXCEPT !.kind = "stock sent", !.out = StockSerialize(enc.rec)]
    /\ HostIdle
    /\ KeyboardIdle

\* the receiver decodes the samples of the first stock head packet: the
\* region from the first sample byte, the length the packet carries
DecodeHistory ==
    /\ enc.kind = "stock"
    /\ enc' = [enc EXCEPT !.kind = "stock decoded",
                   !.dec = decode_stock_history(
                              SubSeq(enc.out[1], 11, PacketSize), enc.out[1][10])]
    /\ HostIdle
    /\ KeyboardIdle

\* ------------------------------------------------------------ script.ts
\* const DATA_TYPE of hid_fetcher/script.ts
SCRIPT_DATA_TYPE ==
    [STOCK |-> 1, METRO |-> 2, METRO_MESSAGE_1 |-> 3, METRO_MESSAGE_2 |-> 4,
     WEATHER |-> 5]

\* the head packet of MetroData.serialize() of script.ts
ScriptMetroHead(incidents) ==
    write(write(writeUInt8(Alloc(PacketSize), SCRIPT_DATA_TYPE.METRO, 1),
                incidents.line, 2, 1),
          incidents.message, 3, HeadBudget)

\* a continuation of it: the tag, the line, message.slice(from) cut at 29 bytes
ScriptMetroMessage(incidents, tag, from) ==
    write(write(writeUInt8(Alloc(PacketSize), tag, 1), incidents.line, 2, 1),
          Slice(incidents.message, from, Len(incidents.message)), 3, HeadBudget)

RECURSIVE ScriptMetroSerialize(_)
\* MetroData.serialize() of script.ts
ScriptMetroSerialize(lines) ==
    IF lines = << >> THEN << >>
    ELSE LET l == Head(lines)
         IN  (IF l.incident
              THEN << ScriptMetroHead(l) >>
                   \o (IF Len(l.message) > HeadBudget
                       THEN << ScriptMetroMessage(
                                   l, SCRIPT_DATA_TYPE.METRO_MESSAGE_1, HeadBudget) >>
                       ELSE << >>)
                   \o (IF Len(l.message) > HeadBudget * 2
                       THEN << ScriptMetroMessage(
                                   l, SCRIPT_DATA_TYPE.METRO_MESSAGE_2, HeadBudget * 2) >>
                       ELSE << >>)
              ELSE << >>)
             \o ScriptMetroSerialize(Tail(lines))

\* WeatherData.serialize() of script.ts: the writes of weather.ts, the tag
\* from the table of script.ts
ScriptWeatherSerialize(w) ==
    << writeUInt8(WeatherSerialize(w)[1], SCRIPT_DATA_TYPE.WEATHER, 1) >>

\* ------------------------------------------------------------ keyboard
\* the stocks of the keymap: stock_data[NUMBER_OF_STOCKS], "DDOG" and "AAPL"
NUMBER_OF_STOCKS == 2

\* char message[29 * 3 + 1]
MessageSize == 88

\* a segment of the message: strncpy(..., 29)
SegmentSize == 29

\* metro_has_incident: 10 * 60 * 1000 ms
IncidentWindow == 600000

\* process_record_user: 5 * 60 * 1000 ms
HeartbeatInterval == 300000

\* the timer advances by this many ms at a time
TimerStep == 350000

\* the timer stops after this many steps
MaxSteps == 2

\* a - b in uint32_t, for the times of the model: the timer stays far below
\* 2^32 ms (49 days) and no time stored is later than the timer
Sub32(a, b) == a - b

\* (int16_t) of 16 bits
ToInt16(u) == IF u >= 2 ^ 15 THEN u - 2 ^ 16 ELSE u

\* (int32_t)(b3 << 24 | b2 << 16 | b1 << 8 | b0)
ToInt32(b3, b2, b1, b0) ==
    (IF b3 >= 128 THEN b3 - 256 ELSE b3) * 2 ^ 24 + b2 * 2 ^ 16 + b1 * 2 ^ 8 + b0

\* data + k of raw_hid_receive: the report id is stripped, data[0] is byte 1
\* of the packet the host wrote
From(packet, k) == SubSeq(packet, k + 2, Len(packet))

\* strncpy(dest + at, src, n): the characters of src up to its first NUL,
\* then NULs, n bytes in all
strncpy(dest, at, src, n) ==
    [i \in DOMAIN dest |->
        IF i > at /\ i <= at + n
        THEN IF \E j \in 1 .. (i - at) : src[j] = 0 THEN 0 ELSE src[i - at]
        ELSE dest[i]]

\* the globals after reset: stock_data is zeroed, weather_data = {0},
\* metro_data = {0}, selected_stock = DDOG, show_metro_message = false,
\* last_heartbeat = 0; the timer starts at 0; overrun records that a store
\* went outside the object it was meant for
Boot ==
    [timer |-> 0,
     stock_data |->
        [i \in 0 .. (NUMBER_OF_STOCKS - 1) |->
            [index |-> 0, symbol |-> "", open |-> FALSE, current_price |-> 0,
             day_change_percentage |-> 0, history_length |-> 0,
             history |-> [k \in 1 .. HistorySlots |-> 0]]],
     selected_stock |-> 0,
     weather_data |->
        [condition |-> 0, temperature |-> 0, feels_like |-> 0, humidity |-> 0,
         pressure |-> 0, wind_speed |-> 0, sunrise |-> [k \in 1 .. 6 |-> 0],
         sunset |-> [k \in 1 .. 6 |-> 0], valid |-> FALSE],
     metro_data |->
        [last_update |-> 0, impacted_line |-> 0,
         message |-> [k \in 1 .. MessageSize |-> 0]],
     show_metro_message |-> FALSE,
     last_heartbeat |-> 0,
     overrun |-> FALSE]

\* case STOCK_DATA_TYPE; the host writes index 0 or 1 (indexOf(symbol)) and
\* prices below 2^31
stock_case(k, packet) ==
    LET d == From(packet, 0)
        index == d[2]
        decoded == decode_stock_history(From(packet, 12), d[12])
    IN  [k EXCEPT !.stock_data[index] =
            [index |-> index,
             symbol |-> IF index = 0 THEN "DDOG" ELSE "AAPL",
             open |-> d[3] # 0,
             current_price |-> d[4] * 2 ^ 24 + d[5] * 2 ^ 16 + d[6] * 2 ^ 8 + d[7],
             day_change_percentage |->
                ToInt32(d[8], d[9], d[10], d[11]),
             history_length |-> d[12],
             history |-> [i \in 1 .. HistorySlots |->
                            IF i <= Len(decoded) THEN decoded[i] ELSE @.history[i]]]]

\* a faulty case: the head also re-arms the placeholder of the display
metro_case_clearing(k, packet) ==
    [k EXCEPT !.metro_data.last_update = k.timer,
              !.metro_data.impacted_line = From(packet, 1)[1],
              !.metro_data.message = strncpy(@, 0, From(packet, 2), SegmentSize),
              !.weather_data.valid = FALSE]

\* case METRO_DATA_TYPE
metro_case(k, packet) ==
    [k EXCEPT !.metro_data.last_update = k.timer,
              !.metro_data.impacted_line = From(packet, 1)[1],
              !.metro_data.message = strncpy(@, 0, From(packet, 2), SegmentSize)]

\* a faulty case: the segment stored one byte further
metro_message_case_shifted(k, packet, at) ==
    [k EXCEPT !.metro_data.message = strncpy(@, at + 1, From(packet, 2), SegmentSize)]

\* case METRO_MESSAGE_1_DATA_TYPE (at 29), METRO_MESSAGE_2_DATA_TYPE (at 58)
metro_message_case(k, packet, at) ==
    [k EXCEPT !.metro_data.message = strncpy(@, at, From(packet, 2), SegmentSize)]

\* a faulty case: the flag is left alone
weather_case_unflagged(k, packet) ==
    LET d == From(packet, 0)
    IN  [k EXCEPT !.weather_data =
            [condition |-> d[2],
             temperature |-> ToInt16(d[3] * 2 ^ 8 + d[4]),
             feels_like |-> ToInt16(d[5] * 2 ^ 8 + d[6]),
             humidity |-> d[7],
             pressure |-> d[8] * 2 ^ 8 + d[9],
             wind_speed |-> d[10],
             sunrise |-> strncpy(@.sunrise, 0, From(packet, 10), 5),
             sunset |-> strncpy(@.sunset, 0, From(packet, 15), 5),
             valid |-> @.valid]]

\* case WEATHER_DATA_TYPE
weather_case(k, packet) ==
    LET d == From(packet, 0)
    IN  [k EXCEPT !.weather_data =
            [condition |-> d[2],
             temperature |-> ToInt16(d[3] * 2 ^ 8 + d[4]),
             feels_like |-> ToInt16(d[5] * 2 ^ 8 + d[6]),
             humidity |-> d[7],
             pressure |-> d[8] * 2 ^ 8 + d[9],
             wind_speed |-> d[10],
             sunrise |-> strncpy(@.sunrise, 0, From(packet, 10), 5),
             sunset |-> strncpy(@.sunset, 0, From(packet, 15), 5),
             valid |-> TRUE]]

\* the switch of raw_hid_receive(data, length): the globals after the case of
\* the packet; INVALID and a value without a case change nothing
received(k, packet) ==
    LET type == raw_hid_receive(packet)
    IN  CASE type = "STOCK_DATA_TYPE" -> stock_case(k, packet)
          [] type = "METRO_DATA_TYPE" -> metro_case(k, packet)
          [] type = "METRO_MESSAGE_1_DATA_TYPE" ->
                metro_message_case(k, packet, SegmentSize)
          [] type = "METRO_MESSAGE_2_DATA_TYPE" ->
                metro_message_case(k, packet, SegmentSize * 2)
          [] type = "WEATHER_DATA_TYPE" -> weather_case(k, packet)
          [] OTHER -> k

\* case STOCK_DATA_TYPE with an index that is no slot of stock_data: the
\* stores of the case go through stock_data[index] all the same, outside the
\* array, which is undefined; either they fall on memory the keymap does not
\* use, or on the object declared next, selected_stock
stock_case_outside(k, packet) ==
    {[k EXCEPT !.overrun = TRUE],
     [k EXCEPT !.overrun = TRUE, !.selected_stock = From(packet, 0)[2]]}

\* raw_hid_receive(data, length): the globals it can leave
arrivals(k, packet) ==
    IF /\ raw_hid_receive(packet) = "STOCK_DATA_TYPE"
       /\ From(packet, 0)[2] >= NUMBER_OF_STOCKS
    THEN stock_case_outside(k, packet)
    ELSE {received(k, packet)}

\* render_stock_graph(stock): the entries of stock->history it reads
render_stock_graph(stock) ==
    IF stock.history_length < 2 THEN {}
    ELSE 0 .. (stock.history_length - 1)

\* metro_has_incident()
metro_has_incident(k) ==
    Sub32(k.timer, k.metro_data.last_update) < IncidentWindow

\* a faulty condition: the last heartbeat is forgotten
heartbeat_since_boot(k) == k.timer > HeartbeatInterval

\* the condition of the heartbeat: timer_read32() - last_heartbeat > 5 * 60 * 1000
heartbeat_due(k) == Sub32(k.timer, k.last_heartbeat) > HeartbeatInterval

\* the heartbeat: uint8_t buf[32] = {0}; buf[1] = 1
heartbeat == Put(Alloc(PacketSize), 1, 1)

\* enum my_keycodes; any other key acts as the release of one of these does
Keycodes == {"SHOW_METRO", "PREVIOUS_STOCK", "NEXT_STOCK"}

\* ------------------------------------------------------------ link
\* nothing on its way, nothing received yet, no heartbeat sent
Idle ==
    [kind |-> "none", rec |-> << >>, wire |-> << >>, headAt |-> -1,
     weather |-> FALSE, up |-> << >>]

\* the messages the host sends in a cycle
LinkMessages == {Message(len, 0) : len \in {29, 70}}

\* the records of the lines when the host serializes them
LinkMetroRecords ==
    {<< [line |-> Ascii(<< 57 >>), incident |-> TRUE, message |-> m,
         stations |-> findStations(<< Ascii(<< 78, 97, 116, 105, 111, 110 >>) >>)] >> :
        m \in LinkMessages}

\* the weather records when the host serializes them: 21 and -5 degrees,
\* 07:30 and 18:45
LinkWeatherRecords ==
    [condition : {2},
     temperature : {-5, 21},
     feelsLike : {-9},
     humidity : {72},
     pressure : {1013},
     windSpeed : {4},
     sunrise : {Ascii(<< 48, 55, 58, 51, 48 >>)},
     sunset : {Ascii(<< 49, 56, 58, 52, 53 >>)}]

\* the stock records when the host serializes them: 36 samples, two packets
LinkStockRecords ==
    [symbol : {"AAPL"},
     open : {TRUE},
     currentPrice : {123456},
     dayChangePercent : {-1235},
     hourlyHistory : {[i \in 1 .. 36 |-> Sample("saw", i)]}]

\* what the host can write in one sendToKeyboard: the packets of one
\* serialize(), of the fetchers of src/ and of script.ts
Sendings ==
    {[kind |-> "metro", rec |-> r, out |-> MetroSerialize(r)] : r \in LinkMetroRecords}
    \cup {[kind |-> "metro2", rec |-> r, out |-> MetroSerialize2(r)] :
             r \in LinkMetroRecords}
    \cup {[kind |-> "script metro", rec |-> r, out |-> ScriptMetroSerialize(r)] :
             r \in LinkMetroRecords}
    \cup {[kind |-> "weather", rec |-> r, out |-> WeatherSerialize(r)] :
             r \in LinkWeatherRecords}
    \cup {[kind |-> "script weather", rec |-> r, out |-> ScriptWeatherSerialize(r)] :
             r \in LinkWeatherRecords}
    \cup {[kind |-> "stock", rec |-> << r >>, out |-> StockSerialize(<< r >>)] :
             r \in LinkStockRecords}

\* the packets of the host's encoders that the keymap takes for a stock or
\* a transit report: those of StockData and of the MetroData of script.ts
HostReports ==
    UNION {{s.out[i] : i \in DOMAIN s.out} :
              s \in {t \in Sendings : t.kind \in {"stock", "script metro"}}}

\* a report of a given tag with every byte behind the tag set to v
Filled(tag, v) ==
    [k \in 1 .. PacketSize |-> IF k = 1 THEN 0 ELSE IF k = 2 THEN tag ELSE v]

\* reports of no encoder: a stock report for slot 0, for slot 1, for index 2
\* and for index 68 ('D', the byte script.ts has at this place), stock
\* reports with the length byte at 24 and 25, text reports without a zero
\* byte, a report of type INVALID and one of an unknown type
StrayReports ==
    {Filled(data_type.STOCK_DATA_TYPE, v) : v \in {0, 1, 2, 68}}
    \cup {Put(Filled(data_type.STOCK_DATA_TYPE, 0), 12, n) : n \in {24, 25}}
    \cup {Filled(tag, 120) :
             tag \in {data_type.METRO_DATA_TYPE, data_type.METRO_MESSAGE_1_DATA_TYPE,
                      data_type.METRO_MESSAGE_2_DATA_TYPE}}
    \cup {Filled(data_type.WEATHER_DATA_TYPE, 49), Filled(data_type.INVALID, 9),
          Filled(200, 1)}

\* raw_hid_receive(data, length) called with any of the reports
ReceiveReport ==
    /\ \E packet \in HostReports \cup StrayReports : fw' \in arrivals(fw, packet)
    /\ UNCHANGED << usb, enc >>
    /\ HostIdle

\* sendToKeyboard: the host serializes a record and writes its packets, once
\* the packets before have arrived
Transmit ==
    /\ usb.wire = << >>
    /\ \E s \in Sendings :
          usb' = [usb EXCEPT !.kind = s.kind, !.rec = s.rec, !.wire = s.out]
    /\ UNCHANGED << fw, enc >>
    /\ HostIdle

\* raw_hid_receive(data, length) on the next packet of the link; with the
\* last packet the sending is over
RawHidReceive ==
    /\ usb.wire # << >>
    /\ LET packet == Head(usb.wire)
           type == raw_hid_receive(packet)
       IN  /\ fw' \in arrivals(fw, packet)
           /\ usb' = [usb EXCEPT
                         !.kind = IF Len(usb.wire) = 1 THEN "none" ELSE @,
                         !.rec = IF Len(usb.wire) = 1 THEN << >> ELSE @,
                         !.wire = Tail(@),
                         !.headAt = IF type = "METRO_DATA_TYPE" THEN fw.timer ELSE @,
                         !.weather = @ \/ type = "WEATHER_DATA_TYPE"]
    /\ UNCHANGED enc
    /\ HostIdle

\* the globals of the keymap after process_record_user(keycode, record)
key_record(k, keycode, pressed) ==
    [k EXCEPT
        !.last_heartbeat = IF heartbeat_due(k) THEN k.timer ELSE @,
        !.show_metro_message = pressed /\ keycode = "SHOW_METRO",
        !.selected_stock =
           IF pressed /\ keycode = "PREVIOUS_STOCK"
           THEN (@ + NUMBER_OF_STOCKS - 1) % NUMBER_OF_STOCKS
           ELSE IF pressed /\ keycode = "NEXT_STOCK"
           THEN (@ + 1) % NUMBER_OF_STOCKS
           ELSE @]

\* the reports on their way up after process_record_user: raw_hid_send(buf, 32)
\* when the heartbeat is due
key_reports(k, up) ==
    IF heartbeat_due(k) THEN Append(up, [at |-> k.timer, packet |-> heartbeat])
    ELSE up

\* process_record_user(keycode, record): the heartbeat when it is due, then
\* the keys of the keymap
process_record_user(keycode, pressed) ==
    /\ fw' = key_record(fw, keycode, pressed)
    /\ usb' = [usb EXCEPT !.up = key_reports(fw, @)]
    /\ UNCHANGED enc
    /\ HostIdle

\* a key is pressed or released
KeyEvent == \E keycode \in Keycodes, pressed \in BOOLEAN : process_record_user(keycode, pressed)

\* the timer of the keyboard advances
TimerTick ==
    /\ fw.timer < MaxSteps * TimerStep
    /\ fw' = [fw EXCEPT !.timer = @ + TimerStep]
    /\ UNCHANGED << usb, enc >>
    /\ HostIdle

\* ------------------------------------------------------------ keyboard and host
\* The keyboard in use on a host that has it open: both clocks run together,
\* the host's in units of 10 seconds, the keyboard's in milliseconds.
TenSeconds == 10000

\* the longest time between two key events, and a shorter one
KeyGaps == {14, 29}

\* how far the clocks run
Horizon == 130

\* the heartbeat sent last has not reached the data listener
Undelivered ==
    /\ usb.up # << >>
    /\ usb.up[Len(usb.up)].at > lastHeartbeat * TenSeconds

\* time passes, less than 5 minutes, up to a key event: at a time a sleep of
\* the host ends, or after one of the gaps; process_record_user runs
KeyAfter(d, keycode, pressed) ==
    /\ Running
    /\ keyboard # 0
    /\ ~Undelivered
    /\ d \in KeyGaps \/ now + d \in Timers
    /\ \A w \in Timers : now + d <= w
    /\ now + d <= Horizon
    /\ now' = now + d
    /\ LET k == [fw EXCEPT !.timer = @ + d * TenSeconds]
       IN  /\ fw' = key_record(k, keycode, pressed)
           /\ usb' = [usb EXCEPT !.up = key_reports(k, @)]
    /\ UNCHANGED << ticks, devicePresent, keyboard, handles, hooks, lastHeartbeat,
                    data, mainPc, mainWake, disc, cyc, exited, enc >>

\* the heartbeat reaches the host: the data listener of the open handle runs
Deliver ==
    /\ Undelivered
    /\ keyboard # 0
    /\ onDataOf(keyboard, usb.up[Len(usb.up)].packet)

\* ------------------------------------------------------------ specification
\* the process after the module is loaded: main() is in waitForKeyboard(),
\* awaiting getKeyboard(); lastHeartbeat = Date.now()
Init ==
    /\ now = 0
    /\ ticks = 0
    /\ devicePresent \in BOOLEAN
    /\ keyboard = 0
    /\ handles = [h \in Handles |-> "unopened"]
    /\ hooks = [h \in Handles |-> FALSE]
    /\ lastHeartbeat = 0
    /\ data = [f \in 1 .. NumFetchers |-> IF fetchers[f] = "weather" THEN 1 ELSE 0]
    /\ mainPc = "waitForKeyboard"
    /\ mainWake = 0
    /\ disc = [q \in Coroutines |->
                 IF q = 0 THEN [NoCoroutine EXCEPT !.pc = "opening"]
                 ELSE NoCoroutine]
    /\ cyc = [c \in Cycles |-> NoCycle]
    /\ exited = << "no", "" >>
    /\ enc = NoEncoding
    /\ fw = Boot
    /\ usb = Idle

Next ==
    \/ Tick
    \/ Plug
    \/ Unplug
    \/ \E q \in Coroutines : getKeyboardOk(q)
    \/ \E q \in Coroutines : getKeyboardFail(q)
    \/ \E q \in Coroutines : RetryWake(q)
    \/ \E h \in Handles : onData(h)
    \/ \E h \in Handles : onError(h)
    \/ \E h \in Handles : BackoffWake(h)
    \/ CycleWake
    \/ RecheckWake
    \/ \E c \in Cycles : RefreshOk(c)
    \/ \E c \in Cycles : RefreshFail(c)
    \/ \E c \in Cycles : WriteOk(c)
    \/ \E c \in Cycles : WriteFail(c)

Spec == Init /\ [][Next]_vars

\* what the event loop of Node.js guarantees: a timer that is due fires, a
\* pending promise (discovery, refresh, write) settles one way or the other;
\* the device, its reports and its error events are not under any obligation
Fairness ==
    /\ WF_vars(Tick)
    /\ WF_vars(CycleWake)
    /\ WF_vars(RecheckWake)
    /\ \A q \in Coroutines : WF_vars(getKeyboardOk(q) \/ getKeyboardFail(q))
    /\ \A q \in Coroutines : WF_vars(RetryWake(q))
    /\ \A h \in Handles : WF_vars(BackoffWake(h))
    /\ \A c \in Cycles : WF_vars(RefreshOk(c) \/ RefreshFail(c))
    /\ \A c \in Cycles : WF_vars(WriteOk(c) \/ WriteFail(c))

FairSpec == Spec /\ Fairness

\* the encoders and the decoder of the history, each on the records drawn
EncNext ==
    \/ SerializeStock
    \/ SerializeMetro
    \/ SerializeMetro2
    \/ SerializeWeather
    \/ DecodeHistory
    \/ RefreshStock
    \/ SerializeRefreshed

EncSpec == Init /\ [][EncNext]_vars

\* the keyboard on the link: the host writes, the keyboard receives, keys
\* are struck, time passes
KbNext ==
    \/ Transmit
    \/ RawHidReceive
    \/ KeyEvent
    \/ TimerTick

KbSpec == Init /\ [][KbNext]_vars

\* the keyboard in use and the host that has it open: keys are struck less
\* than 5 minutes apart, heartbeats reach the host, the main loop sleeps,
\* checks and refreshes
WatchNext ==
    \/ Plug
    \/ getKeyboardOk(0)
    \/ \E d \in 1 .. (HeartbeatInterval \div TenSeconds - 1),
          keycode \in Keycodes, pressed \in BOOLEAN :
          KeyAfter(d, keycode, pressed)
    \/ Deliver
    \/ ~Undelivered /\ CycleWake
    \/ RecheckWake
    \/ \E c \in Cycles : RefreshOk(c)
    \/ \E c \in Cycles : WriteOk(c)

WatchSpec == Init /\ [][WatchNext]_vars

\* the keyboard given any sequence of reports
RecvNext == ReceiveReport

RecvSpec == Init /\ [][RecvNext]_vars

\* ------------------------------------------------------------ claims
\* a write is in flight for invocation c: a packet was handed to a handle
\* and the write has not completed
InFlight(c) == cyc[c].st = "writing" /\ cyc[c].wh # 0

\* the step hands a packet of invocation c to a handle
WritesPacket(c) ==
    /\ cyc'[c] # cyc[c]
    /\ cyc'[c].st = "writing"
    /\ cyc'[c].wh # 0

\* the handle invocation c began on has had its error event
Interrupted(c) ==
    /\ cyc[c].st # "none"
    /\ cyc[c].h0 # 0
    /\ handles[cyc[c].h0] = "closed"

\* C1: when the sleep of the main loop ends, refreshAndSend is run if and
\* only if the time since the last heartbeat does not exceed the watchdog
\* window, and a skipped cycle starts no invocation.
C1_CycleRunsIffFresh ==
    [][(mainPc = "sleep" /\ mainPc' # "sleep") =>
          /\ (mainPc' = "refreshAndSend") <=> (now - lastHeartbeat <= WatchdogWindow)
          /\ (mainPc' = "recheck") => cyc'[0] = NoCycle]_vars

\* C2: no packet is handed to a handle at a moment when more than the
\* watchdog window has elapsed since the last heartbeat, whichever
\* invocation (periodic or started on connection) sends it.
C2_NoWriteWhenStale ==
    [][\A c \in Cycles :
          WritesPacket(c) => now - lastHeartbeat <= WatchdogWindow]_vars

\* C3: once a heartbeat has been received at time T, the liveness check
\* answers Alive at every time in [T, T+W) and Stale at every time >= T+W.
C3_LivenessWindow ==
    lastHeartbeat > 0 =>
        (isKeyboardActive(now, lastHeartbeat)
            <=> (now - lastHeartbeat < WatchdogWindow))

\* C4: at most one write is in flight at any time, over all the invocations
\* of refreshAndSend.
C4_SingleWriter == Cardinality({c \in Cycles : InFlight(c)}) <= 1

\* the step starts the refresh of a further domain in invocation c
RefreshesNext(c) ==
    /\ cyc'[c].st = "refresh"
    /\ cyc'[c].f # cyc[c].f

\* C5: once the handle an invocation began on has had its error event, the
\* invocation hands no further packet to any handle (the one opened later
\* included) and starts the refresh of no further domain.
C5_ErrorAbortsCycle ==
    [][\A c \in Cycles :
          Interrupted(c) => ~WritesPacket(c) /\ ~RefreshesNext(c)]_vars

\* C6: the error handler of handle h closes the handle, removes its
\* listeners and sets keyboard to null in the step of the error event, before
\* any discovery attempt; its discovery starts only once the backoff has
\* elapsed, with the handle still discarded; and the step that opens a handle
\* hooks it and starts refreshAndSend at the first fetcher.
C6_ErrorThenReconnect ==
    /\ [](\A h \in Handles :
            disc[h].pc \in {"backoff", "opening", "retry"} =>
                handles[h] = "closed" /\ ~hooks[h] /\ keyboard # h)
    /\ [][\A h \in Handles :
            /\ (disc[h].pc = "idle" /\ disc'[h].pc # "idle") =>
                  /\ keyboard' = 0
                  /\ handles'[h] = "closed"
                  /\ ~hooks'[h]
                  /\ disc'[h] = [pc |-> "backoff", wake |-> now + Backoff]
            /\ (disc[h].pc = "backoff" /\ disc'[h].pc # "backoff") =>
                  now >= disc[h].wake
            /\ (disc[h].pc # "opening" /\ disc'[h].pc = "opening") =>
                  keyboard = 0
            /\ (keyboard # h /\ keyboard' = h) =>
                  /\ handles'[h] = "open"
                  /\ hooks'[h]
                  /\ cyc'[h] = [NoCycle EXCEPT !.st = "refresh", !.f = 1,
                                               !.h0 = h]]_vars

\* C6 witness: an error handler has reconnected and the invocation started
\* on the new handle is sending
C6_Reconnected ==
    \E h \in Handles :
        /\ disc[h].pc = "done"
        /\ handles[h] = "closed"
        /\ keyboard > h
        /\ InFlight(keyboard)

\* C7: a rejected write in the cycle of the main loop does not end the
\* process: main() keeps running.
C7_WriteFailureKeepsRunning == exited # << "exit", "write" >>

\* C8: after a failed refresh of a domain the invocation goes straight to
\* the refresh of the next domain (or ends after the last one): the domain's
\* encoder does not run, no packet of it is sent, the others are still
\* refreshed.
C8_FailedRefreshSendsNothing ==
    [][\A c \in Cycles :
          RefreshFail(c) =>
              /\ Running'
              /\ IF cyc[c].f < NumFetchers
                 THEN cyc'[c].st = "refresh" /\ cyc'[c].f = cyc[c].f + 1
                 ELSE cyc'[c] = NoCycle]_vars

\* C9: no failure reaches the catch of main(): the process is never ended by
\* process.exit(1).
C9_HostNeverTerminates == exited[1] # "exit"

\* C10: within an invocation the packets of a domain go to sendToKeyboard in
\* the order serialize() returned them, one at a time, starting with the
\* first, and the next domain is refreshed only after the last.
C10_PacketOrder ==
    [][\A c \in Cycles :
          /\ (cyc[c].st = "refresh" /\ cyc'[c].st = "writing") =>
                cyc'[c].i = 1 /\ cyc'[c].f = cyc[c].f
          /\ (cyc[c].st = "writing" /\ cyc'[c].st = "writing"
                /\ cyc'[c] # cyc[c]) =>
                /\ cyc'[c].i = cyc[c].i + 1
                /\ cyc'[c].payload = cyc[c].payload
                /\ cyc'[c].f = cyc[c].f
          /\ (cyc[c].st = "writing" /\ cyc'[c].st = "refresh") =>
                /\ cyc[c].i = Len(cyc[c].payload)
                /\ cyc'[c].f = cyc[c].f + 1]_vars

\* C10 witness: the second packet of the third domain is in flight
C10_SecondPacketOfThirdDomain ==
    \E c \in Cycles :
        /\ InFlight(c)
        /\ cyc[c].f = NumFetchers
        /\ cyc[c].i = 2

\* ============================================================ packets
\* the packets serialized last
Packets == {enc.out[k] : k \in DOMAIN enc.out}

\* C11: every packet an encoder returns is 32 bytes long, each a byte.
C11_PacketSize ==
    \A p \in Packets : Len(p) = 32 /\ \A k \in DOMAIN p : p[k] \in 0 .. 255

\* a message of 200 characters went out as a head and seven continuations
C11_LongMessageSerialized ==
    /\ enc.kind = "metro"
    /\ Len(enc.rec[Len(enc.rec)].message) = 200
    /\ Len(enc.rec[Len(enc.rec)].stations) = 0
    /\ Len(enc.out) = 8

\* C12: byte 1 of every packet is a tag of DATA_TYPE, never 0.
C12_TagDefined ==
    \A p \in Packets :
        /\ p[2] # 0
        /\ \E name \in DOMAIN DATA_TYPE : DATA_TYPE[name] = p[2]

\* C13: the receiver dispatches a stock head, a metro head and a weather
\* packet to the case of that message type: the first packet of a
\* serialization is the head of its domain.
C13_TagsAgree ==
    enc.out # << >> =>
        /\ enc.kind \in {"stock", "stock decoded"} =>
               raw_hid_receive(enc.out[1]) = "STOCK_DATA_TYPE"
        /\ enc.kind \in {"metro", "metro2"} =>
               raw_hid_receive(enc.out[1]) = "METRO_DATA_TYPE"
        /\ enc.kind = "weather" =>
               raw_hid_receive(enc.out[1]) = "WEATHER_DATA_TYPE"

\* ------------------------------------------------------------ stock packets
\* a stock serialization is in enc
StockSerialized == enc.kind \in {"stock", "stock decoded"}

\* where the head packet of symbol s of the records is among the packets
HeadAt(s) ==
    IF s = 1 THEN 1
    ELSE IF Len(enc.rec[1].hourlyHistory) > 35 THEN 3 ELSE 2

\* the 5-bit field i (from 0) of the sample region that starts at byte base
SampleAt(p, base, i) == decode_sample(SubSeq(p, base + 1, Len(p)), 0, i * 5, 0)

\* a / b rounded to the nearest integer, halves up, for a >= 0 and b > 0
RoundDiv(a, b) == (2 * a + b) \div (2 * b)

\* C14: sample i of the head packet is round((s - min) / range * 31) clamped
\* to [0,31], range being max - min, or 1 when max = min.
C14_RoundedQuantization ==
    StockSerialized =>
        \A s \in DOMAIN enc.rec :
            LET h == enc.rec[s].hourlyHistory
                min == MinOf(h)
                max == MaxOf(h)
                range == IF max = min THEN 1 ELSE max - min
                rounded(i) == RoundDiv((h[i] - min) * 31, range)
            IN  \A i \in 1 .. (IF Len(h) < 35 THEN Len(h) ELSE 35) :
                    SampleAt(enc.out[HeadAt(s)], 10, i - 1)
                        = (IF rounded(i) > 31 THEN 31 ELSE rounded(i))

C16_HistoryRoundTrip ==
    enc.kind = "stock decoded" =>
        LET h == enc.rec[1].hourlyHistory
            min == MinOf(h)
            range == RangeOf(h)
        IN  Len(h) <= 35 =>
                enc.dec = [i \in 1 .. Len(h) |-> Normalize(h[i], min, range)]

Incident == enc.rec[Len(enc.rec)]

\* the bytes of a text region up to its last non-zero byte
StripZeros(region) ==
    SubSeq(region, 1,
           IF \A k \in DOMAIN region : region[k] = 0 THEN 0
           ELSE CHOOSE k \in DOMAIN region :
                   region[k] # 0 /\ \A l \in DOMAIN region : l > k => region[l] = 0)

\* the packets of that line, in emission order: byte 2 is the line
Own == SelectSeq(enc.out, LAMBDA p : << p[3] >> = Incident.line[1])

\* the text segment packet k of the line carries: the head has it from byte
\* 3, a continuation with an offset byte from byte 4, one without from byte 3
Segment(k) ==
    StripZeros(SubSeq(Own[k], IF k > 1 /\ enc.kind = "metro" THEN 5 ELSE 4, 32))

\* the packets of the message: the head and the continuations
LastMessagePacket ==
    IF enc.kind = "metro" THEN Len(Own) - Len(Incident.stations)
    ELSE Len(Own)

RECURSIVE SegmentsUpTo(_)
\* the segments of packets 1 .. k, concatenated in emission order
SegmentsUpTo(k) == IF k = 0 THEN << >> ELSE SegmentsUpTo(k - 1) \o Segment(k)

\* C19: the text segments of the head and the continuations, concatenated in
\* emission order, begin with the first min(L, 87) bytes of the message.
C19_ChunksConcatenate ==
    enc.kind \in {"metro", "metro2"} =>
        LET message == Utf8(Incident.message)
            n == IF Len(message) < 87 THEN Len(message) ELSE 87
            text == SegmentsUpTo(LastMessagePacket)
        IN  /\ Len(text) >= n
            /\ SubSeq(text, 1, n) = SubSeq(message, 1, n)

\* C20: the offset each continuation carries is the sum of the lengths of
\* the segments emitted before it, and larger than the offset before it.
C20_OffsetsAreSums ==
    enc.kind = "metro" =>
        \A k \in 2 .. LastMessagePacket :
            /\ Own[k][4] = Len(SegmentsUpTo(k - 1))
            /\ k > 2 => Own[k][4] > Own[k - 1][4]

C22_SilentTruncation ==
    /\ enc.kind \in {"metro", "metro threw"}
    /\ \E offset \in Offsets(Incident) : offset > 255
    => /\ enc.kind = "metro"
       /\ \A offset \in Offsets(Incident) :
              \E k \in DOMAIN Own : Own[k][2] = 4 /\ Own[k][4] = offset % 256

\* the packets of one line, in emission order
PacketsOf(line) == SelectSeq(enc.out, LAMBDA p : << p[3] >> = line[1])

CharCount(bytes) == Cardinality({k \in DOMAIN bytes : bytes[k] \notin 128 .. 191})

\* C24: for each line with an incident the station packets come after the
\* head and the continuations of the line; there are at most 5, their
\* indices are 0 .. count - 1 in ascending order, each carries the number of
\* station packets as its count, and each name has at most 16 characters.
C24_StationPackets ==
    enc.kind = "metro" =>
        \A l \in DOMAIN enc.rec :
            enc.rec[l].incident =>
                LET own == PacketsOf(enc.rec[l].line)
                    count == Cardinality({k \in DOMAIN own : own[k][2] = 5})
                IN  /\ count <= 5
                    /\ \A k \in DOMAIN own :
                           IF own[k][2] = 5
                           THEN /\ k >= Len(own) - count + 1
                                /\ own[k][4] = k - (Len(own) - count + 1)
                                /\ own[k][5] = count
                                /\ CharCount(StripZeros(SubSeq(own[k], 6, 32))) <= 16
                           ELSE k < Len(own) - count + 1

\* eight names, seven distinct stations, were cut to five station packets
\* after a head and continuations, one name cut to 16 characters
C24_FiveStations ==
    /\ enc.kind = "metro"
    /\ Len(Incident.message) = 70
    /\ Len(Own) = 8
    /\ \A k \in 4 .. 8 : Own[k][2] = 5 /\ Own[k][5] = 5
    /\ \E names \in StationNames :
           /\ Len(names) = 8
           /\ Incident.stations = findStations(names)
    /\ \E k \in 4 .. 8 : CharCount(StripZeros(SubSeq(Own[k], 6, 32))) = 16

\* ============================================================ the keyboard
\* the step is raw_hid_receive on the packet at the head of the link
Receiving == usb.wire # << >> /\ usb'.wire = Tail(usb.wire)

\* a C string: the bytes before the first NUL
CString(bytes) ==
    SubSeq(bytes, 1,
           IF \A k \in DOMAIN bytes : bytes[k] # 0 THEN Len(bytes)
           ELSE (CHOOSE k \in DOMAIN bytes :
                    bytes[k] = 0 /\ \A j \in 1 .. (k - 1) : bytes[j] # 0) - 1)

\* C25: after the keyboard has processed the single packet of a weather
\* record, its weather slot equals the record field for field, negative
\* temperatures included.
C25_WeatherRoundTrip ==
    [][usb.kind \in {"weather", "script weather"} /\ Receiving =>
          LET w == usb.rec
              d == fw'.weather_data
          IN  /\ d.condition = w.condition
              /\ d.temperature = w.temperature
              /\ d.feels_like = w.feelsLike
              /\ d.humidity = w.humidity
              /\ d.pressure = w.pressure
              /\ d.wind_speed = w.windSpeed
              /\ CString(d.sunrise) = Utf8(w.sunrise)
              /\ CString(d.sunset) = Utf8(w.sunset)]_vars

\* C26: after the keyboard has processed the head packet and all the
\* continuation packets of a message M, sent with the tags of its own
\* enum, the message buffer holds exactly M (cut to 87 bytes), whatever
\* was stored before.
C26_BufferHoldsMessage ==
    [][usb.kind = "script metro" /\ Receiving /\ Len(usb.wire) = 1 =>
          LET message == Utf8(usb.rec[1].message)
              n == IF Len(message) < 87 THEN Len(message) ELSE 87
          IN  CString(fw'.metro_data.message) = SubSeq(message, 1, n)]_vars

\* C27: the keyboard reports an incident exactly when a head packet has
\* been received and fewer than 10 minutes have passed since the last one.
C27_IncidentIffRecentHead ==
    metro_has_incident(fw) <=>
        (usb.headAt >= 0 /\ fw.timer - usb.headAt < 10 * 60 * 1000)

\* C28: the "data received" flag of the weather is false until the first
\* weather packet is processed and true in every state after that.
C28_ValidSinceFirstWeather == fw.weather_data.valid = usb.weather

\* a weather packet was processed, then a head packet and key events with a
\* heartbeat, and the flag is still set
C28_ValidAfterOtherEvents ==
    /\ fw.weather_data.valid
    /\ fw.weather_data.temperature = -5
    /\ usb.headAt > 0
    /\ usb.up # << >>
    /\ fw.stock_data[1].symbol = "AAPL"

\* the state that belongs to a message type
Owner(type) ==
    CASE type = "STOCK_DATA_TYPE" -> "stock_data"
      [] type = "WEATHER_DATA_TYPE" -> "weather_data"
      [] type \in {"METRO_DATA_TYPE", "METRO_MESSAGE_1_DATA_TYPE",
                   "METRO_MESSAGE_2_DATA_TYPE"} -> "metro_data"
      [] OTHER -> "nothing"

C30_HeartbeatsSpaced ==
    [][usb'.up # usb.up =>
          /\ KeyEvent
          /\ Len(usb'.up) = Len(usb.up) + 1
          /\ LET beat == usb'.up[Len(usb'.up)]
             IN  /\ Len(beat.packet) = 32
                 /\ beat.packet[2] = 1
                 /\ beat.at = fw.timer
                 /\ \A i \in DOMAIN usb.up : beat.at - usb.up[i].at > 5 * 60 * 1000]_vars

\* two heartbeats were sent
C30_TwoHeartbeats == Len(usb.up) = 2 /\ usb.up[2].at > usb.up[1].at

\* ============================================================ the host and the link
\* C31: lastHeartbeat changes only in a step of the data handler called with
\* a report whose byte 1 is 1, and is then the time of the call; a report
\* without the marker leaves it as it is, so does every other step (refresh,
\* skipped cycle, error event, reconnection, timers), and it never decreases.
\* The heartbeat the keymap sends is one of the reports.
C31_HeartbeatOnlyFromMarkedData ==
    /\ heartbeat \in DataReports
    /\ [][/\ lastHeartbeat' # lastHeartbeat =>
                /\ \E h \in Handles, report \in DataReports :
                      onDataOf(h, report) /\ report[2] = 1
                /\ lastHeartbeat' = now
                /\ lastHeartbeat' > lastHeartbeat
           /\ \A h \in Handles, report \in DataReports :
                onDataOf(h, report) =>
                    lastHeartbeat' = IF report[2] = 1 THEN now ELSE lastHeartbeat
         ]_vars

\* C31 witness: a heartbeat was received, then the handle had its error
\* event and the handler reconnected; the timestamp is still the receipt time
C31_HeartbeatKeptOverReconnect ==
    /\ lastHeartbeat > 0
    /\ now > lastHeartbeat
    /\ keyboard = 2
    /\ handles[1] = "closed"
    /\ cyc[2].st # "none"

\* the moment the cycle was skipped, while main() is in the sleep(1 * 60)
\* that follows the skip
SkippedAt == mainWake - RecheckDelay

\* C32: after a skipped cycle the next liveness check takes place less than
\* the cycle period after the skip: when the sleep that follows the skip
\* ends, the check is due sooner than one cycle period after the skip.
C32_RecheckSoonerThanCycle ==
    [][(mainPc = "recheck" /\ mainPc' # "recheck") =>
          /\ mainPc' \in {"sleep", "refreshAndSend"}
          /\ mainPc' = "sleep" => mainWake' - SkippedAt < CyclePeriod]_vars

\* the error handler has discarded the handle and the device can be found
Disconnected ==
    /\ keyboard = 0
    /\ \E h \in Handles : handles[h] = "closed"
    /\ devicePresent

\* the clock or the handles of the model are used up
Exhausted == ticks = MaxTicks \/ Opened = MaxHandles

\* C33: once a handle was discarded after an error event, if the device is
\* discoverable and stays so, the host eventually holds an open handle again
\* (as far as the clock and the handles of the model reach); and no packet
\* is handed to a handle whose data and error listeners are not attached.
C33_EventuallyReopened ==
    /\ Disconnected ~> (keyboard # 0 \/ ~devicePresent \/ Exhausted)
    /\ [][\A c \in Cycles :
            WritesPacket(c) => hooks[cyc'[c].wh] /\ handles[cyc'[c].wh] = "open"]_vars

\* ============================================================ stock refresh
\* 14:30 UTC, in minutes of the day
MarketOpen == 870

\* 21:00 UTC, in minutes of the day
MarketClose == 1260

\* the 5-minute points of 6 h 30 min
MarketPoints == 78

\* the record StockData.refresh() has just left
Refreshed == enc.rec[1]

\* C34: after a refresh the history of a symbol is the prices of points
\* whose times lie in 14:30 <= t < 21:00 UTC, each 5 minutes after the one
\* before it, so there are at most 78 of them and serialize() sends all of
\* them in a head packet and at most one continuation.
C34_HistoryWithinMarketHours ==
    enc.kind = "stock refreshed" =>
        /\ Len(Refreshed.hourlyHistory) = Len(Refreshed.bars)
        /\ \A k \in DOMAIN Refreshed.bars :
              /\ Refreshed.hourlyHistory[k] = Refreshed.bars[k].vw
              /\ MarketOpen <= Refreshed.bars[k].t
              /\ Refreshed.bars[k].t < MarketClose
              /\ k > 1 => Refreshed.bars[k].t - Refreshed.bars[k - 1].t = FIVE_MIN
        /\ Len(Refreshed.hourlyHistory) <= MarketPoints
        /\ Len(Refreshed.hourlyHistory) <= HistoryCap
        /\ Len(StockSerialize(<< Refreshed >>)) <= 2
        /\ Refreshed.open <=> Refreshed.hourlyHistory # << >>

\* C34 witness: an answer with gaps and with bars after the close gave a
\* history of 76 points or more, longer than the answer itself
C34_GapsFilledOverTheDay ==
    /\ enc.kind = "stock refreshed"
    /\ enc.dec # << >>
    /\ enc.dec[Len(enc.dec)].t >= MarketClose
    /\ Len(Refreshed.hourlyHistory) > Len(enc.dec)
    /\ Len(Refreshed.hourlyHistory) >= 76

\* ============================================================ discovery
\* the coroutines inside waitForKeyboard: awaiting getKeyboard() or sleeping
\* before the next attempt
Discovering == {q \in Coroutines : disc[q].pc \in {"opening", "retry"}}

\* the handles that are open
OpenHandles == {h \in Handles : handles[h] = "open"}

\* C35: at most one handle is open and at most one coroutine is inside
\* waitForKeyboard at any time; an open handle is the one keyboard holds; and
\* a handle is opened only in a step taken with keyboard null, no handle
\* open, by the one coroutine that is discovering.
C35_OneHandleOneDiscovery ==
    /\ [](Cardinality(OpenHandles) <= 1)
    /\ [](Cardinality(Discovering) <= 1)
    /\ [](OpenHandles \subseteq {keyboard})
    /\ [](Discovering # {} => keyboard = 0)
    /\ [][\A h \in Handles :
            (handles[h] # "open" /\ handles'[h] = "open") =>
                /\ keyboard = 0
                /\ OpenHandles = {}
                /\ \E q \in Coroutines :
                      Discovering = {q} /\ disc[q].pc = "opening"]_vars

\* C35 witness: main() has left waitForKeyboard long ago, the first handle
\* was discarded, and the error handler is alone in its second attempt
C35_HandlerAloneInDiscovery ==
    \E h \in Handles :
        /\ handles[h] = "closed"
        /\ disc[h].pc = "opening"
        /\ Discovering = {h}
        /\ disc[0].pc = "done"
        /\ now >= RetryDelay

\* ============================================================ keyboard and host
\* the main loop makes its liveness check in this step
LivenessCheck == mainPc = "sleep" /\ mainPc' # "sleep"

\* C36: once the keyboard has sent its first heartbeat, with key events less
\* than 5 minutes apart and every heartbeat delivered, each liveness check
\* of the main loop finds the heartbeat fresh and goes on to refreshAndSend;
\* and the time since the heartbeat received last never exceeds the watchdog
\* window.
C36_ChecksFindHeartbeatFresh ==
    /\ [](usb.up # << >> /\ ~Undelivered => now - lastHeartbeat <= WatchdogWindow)
    /\ [][(usb.up # << >> /\ LivenessCheck) => mainPc' = "refreshAndSend"]_vars

\* ============================================================ stock serialization
\* C37: StockData.serialize() returns its packets for every record refresh()
\* can leave, whatever the price, the day change and the length of the
\* history: it never raises an error.
C37_SerializeIsTotal == enc.kind # "stock threw"

\* ============================================================ the keyboard's buffers
\* C38: whatever the index byte of a stock report, the keymap stores stock
\* state in the slots 0 .. NUMBER_OF_STOCKS - 1 of stock_data only: no store
\* goes outside the array.
C38_StockWritesStayInArray ==
    /\ DOMAIN fw.stock_data = 0 .. (NUMBER_OF_STOCKS - 1)
    /\ ~fw.overrun

\* C39: the history_length of every slot is at most the number of entries
\* decoded into it, itself at most the 24 entries of history[], so that
\* render_stock_graph reads entries of the buffer only.
C39_HistoryLengthWithinBuffer ==
    \A i \in DOMAIN fw.stock_data :
        /\ fw.stock_data[i].history_length <= HistorySlots
        /\ render_stock_graph(fw.stock_data[i]) \subseteq 0 .. (HistorySlots - 1)

\* the text buffers of the keymap
TextBuffers ==
    << fw.metro_data.message, fw.weather_data.sunrise, fw.weather_data.sunset >>

====
